---- MODULE Spec2Model ----
(***************************************************************************)
(* A model of the TiKV blob API (src/main.go): the client pool (a buffered *)
(* Go channel of client handles), the request handlers that run as one     *)
(* goroutine per HTTP request, the background monitor goroutine, and the   *)
(* key-value store the handlers reach through a checked-out client.        *)
(*                                                                         *)
(* Every channel operation and every storage call (Scan, Get, Put, Delete) *)
(* is one atomic step; the code between two such steps touches only the    *)
(* goroutine's own locals and is folded into the step before it.           *)
(***************************************************************************)
EXTENDS Integers, Sequences, FiniteSets, TLC

\* ---------------------------------------------------------------- bounds

\* Request goroutines that may be in flight at the same time.
NumReqs == 2
\* Largest pool capacity explored; production uses ClientPoolSize = 10
\* (src/main.go:68), the tests build pools of capacity 1 and 2.
MaxPool == 2
\* The clock (time.Now().UnixNano()) reads 1..MaxTime.
MaxTime == 4
\* The limit handed to every Scan. The source passes the literal 100
\* (src/main.go:212, 260, 319, 378, 415, 458); the model scales it down so
\* that a store larger than the scan window is reachable.
ScanLimit == 2

\* Clock readings in the runs of concurrent writers.
RaceTime == 2

Reqs == 1..NumReqs
\* The monitor goroutine's id in the channel's queue of blocked receivers.
Mon == NumReqs + 1
Handles == 1..MaxPool
\* The nil client (src/main.go:126).
NoHandle == 0
Times == 1..MaxTime

\* Blob values a caller may send; "" is what Query().Get returns for a
\* missing or empty parameter.
Blobs == {"a", "b"}
Params == Blobs \cup {""}
Methods == {"GET", "POST", "DELETE", "PUT", "PATCH"}
\* Values of the action parameter: the three the API names, the empty
\* string of a missing or empty parameter, and one no handler knows.
Actions == {"count", "all", "random", "", "other"}
\* The context a storage call is issued with: the request's own
\* (r.Context()), or the package's context.Background() (src/main.go:73).
RequestContext == "request"
ctx == "background"
\* A key that holds no value in the store.
Absent == "absent"

\* ------------------------------------------------------- keys and scans

\* fmt.Sprintf("blob:%d", t): the decimal digits of t after the prefix.
RECURSIVE Digits(_)
Digits(n) == IF n < 10 THEN <<n>> ELSE Append(Digits(n \div 10), n % 10)

\* Byte-wise (lexicographic) order of two digit strings, the order of a
\* range scan over keys that share the prefix "blob:".
RECURSIVE LexLess(_, _)
LexLess(s, t) ==
    IF s = <<>> THEN t # <<>>
    ELSE IF t = <<>> THEN FALSE
    ELSE IF Head(s) # Head(t) THEN Head(s) < Head(t)
    ELSE LexLess(Tail(s), Tail(t))

KeyLess(j, k) == LexLess(Digits(j), Digits(k))

StoredKeys(st) == {k \in DOMAIN st : st[k] # Absent}

RECURSIVE SortKeys(_)
SortKeys(S) ==
    IF S = {} THEN <<>>
    ELSE LET m == CHOOSE k \in S : \A j \in S \ {k} : KeyLess(k, j)
         IN  <<m>> \o SortKeys(S \ {m})

Truncate(s, n) == IF Len(s) > n THEN SubSeq(s, 1, n) ELSE s

\* A mutant of Scan: the limit is ignored.
ScanUnlimited(st) == SortKeys(StoredKeys(st))

\* client.Scan(ctx, "blob:", "blob:~", 100): the keys of the range in key
\* order, at most the limit.
Scan(st) == Truncate(SortKeys(StoredKeys(st)), ScanLimit)

Range(s) == {s[i] : i \in 1..Len(s)}

\* ------------------------------------------------------------------ state

VARIABLES
    clientPool,  \* the channel's buffer: handles in FIFO order
    capPool,     \* cap(clientPool), fixed at construction
    recvq,       \* goroutines blocked in <-clientPool, in arrival order
    store,       \* the TiKV keyspace under "blob:": timestamp -> value
    now,         \* the clock
    rq,          \* per request goroutine: its position and locals
    mon,         \* the monitor goroutine: its position and its client
    w,           \* the response written by the step just taken (NoResp
                 \* when that step wrote none)
    monLog,      \* <<n>> when the step just taken logged the count n,
                 \* NoLog when it logged none
    taken,       \* how many handles the monitor has received so far
                 \* (history, read by no action's guard)
    nreq,        \* this run's bound: requests 1..nreq arrive
    tmax         \* this run's bound: the clock stops at tmax

vars ==
    <<clientPool, capPool, recvq, store, now, rq, mon, w, monLog, taken,
      nreq, tmax>>

\* The runs explored: concurrent requests over a store of one key, and one
\* request at a time (beside the monitor) over a store that outgrows the
\* scan window.
Scenarios ==
    {[nreq |-> NumReqs, tmax |-> 1], [nreq |-> 1, tmax |-> MaxTime]}

\* A request goroutine that is not running.
IdleReq ==
    [pc |-> "idle", client |-> NoHandle, method |-> "", arg |-> "",
     newBlob |-> "", keys |-> <<>>, idx |-> 0, blobs |-> <<>>, key |-> 0,
     calls |-> <<>>, dirty |-> FALSE, failed |-> FALSE, ctxs |-> {}]

NoResp ==
    [req |-> 0, method |-> "", arg |-> "", newBlob |-> "", status |-> 0,
     msg |-> "", kind |-> "none", count |-> 0, blobs |-> <<>>,
     calls |-> <<>>, acquired |-> FALSE, dirty |-> FALSE, wrote |-> FALSE,
     failed |-> FALSE, ctxs |-> {}]

NoLog == <<>>

\* setupClientPool: a channel of the configured capacity, filled with one
\* client per slot; the store is empty and nothing runs yet.
Start(sc) ==
    /\ capPool \in 0..MaxPool
    /\ clientPool = [i \in 1..capPool |-> i]
    /\ recvq = <<>>
    /\ store = [k \in Times |-> Absent]
    /\ now = 1
    /\ rq = [r \in Reqs |-> IdleReq]
    /\ mon = [pc |-> "sleep", client |-> NoHandle]
    /\ w = NoResp
    /\ monLog = NoLog
    /\ taken = 0
    /\ nreq = sc.nreq /\ tmax = sc.tmax

Init == \E sc \in Scenarios : Start(sc)

\* -------------------------------------------------------------- history

InFlight(q) == q.pc # "idle"

\* Request r changed the store: every other request in flight has run
\* beside a writer.
Wrote(qs, r) ==
    [x \in Reqs |-> IF x # r /\ InFlight(qs[x])
                    THEN [qs[x] EXCEPT !.dirty = TRUE] ELSE qs[x]]

\* ------------------------------------------------------------ responses

Resp(q, r, status, msg, kind, count, blobs, wrote) ==
    [req |-> r, method |-> q.method, arg |-> q.arg, newBlob |-> q.newBlob,
     status |-> status, msg |-> msg, kind |-> kind, count |-> count,
     blobs |-> blobs, calls |-> q.calls, acquired |-> q.client # NoHandle,
     dirty |-> q.dirty, wrote |-> wrote, failed |-> q.failed,
     ctxs |-> q.ctxs]

\* The handler returns: what is left to run is handleRequest's deferred
\* send of the client (src/main.go:170-172).
Returned(q) == [IdleReq EXCEPT !.pc = "release", !.client = q.client]

\* A mutant of Fail: http.Error is not followed by return, and the handler
\* goes on from where it was.
FailNoReturn(q, r, code, msg) ==
    [q |-> q, w |-> Resp(q, r, code, msg, "error", 0, <<>>, FALSE)]

\* http.Error(w, msg, code) followed by return.
Fail(q, r, code, msg) ==
    [q |-> Returned(q), w |-> Resp(q, r, code, msg, "error", 0, <<>>, FALSE)]

\* A JSON body written with the default status 200, then return.
Ok(q, r, kind, count, blobs, wrote) ==
    [q |-> Returned(q), w |-> Resp(q, r, 200, "", kind, count, blobs, wrote)]

\* The handler goes on to its next storage call.
Next1(q, pc) == [q |-> [q EXCEPT !.pc = pc], w |-> NoResp]

Called(q, call) == [q EXCEPT !.calls = Append(@, call)]

\* A storage call issued with context c has returned, with an error or
\* without.
Did(q, call, ok, c) ==
    [Called(q, call) EXCEPT !.failed = @ \/ ~ok, !.ctxs = @ \cup {c}]

\* ------------------------------------------------------------- requests

\* What a request carries: its method and the query parameters its handler
\* reads (action for GET, blob for POST and DELETE, oldBlob and newBlob for
\* PUT).
Inputs ==
    [method : {"GET"}, arg : Actions, newBlob : {""}]
      \cup [method : {"POST", "DELETE"}, arg : Params, newBlob : {""}]
      \cup [method : {"PUT"}, arg : Params, newBlob : Params]
      \cup [method : {"PATCH"}, arg : {""}, newBlob : {""}]

\* A mutant of handleGET: an action that is none of count, all and random
\* is refused.
handleGETKnownOnly(q, r) ==
    IF q.arg = "count" THEN Next1(q, "count")
    ELSE IF q.arg \in {"all", "random"} THEN Next1(q, "scan")
    ELSE Fail(q, r, 400, "Invalid action")

\* handleGET: route on the action parameter.
handleGET(q, r) ==
    IF q.arg = "count" THEN Next1(q, "count") ELSE Next1(q, "scan")

\* handlePOST up to its Scan: the blob parameter must not be empty.
handlePOST(q, r) ==
    IF q.arg = "" THEN Fail(q, r, 400, "No blob provided")
    ELSE Next1(q, "scan")

\* handleDELETE up to its Scan.
handleDELETE(q, r) ==
    IF q.arg = "" THEN Fail(q, r, 400, "No blob provided")
    ELSE Next1(q, "scan")

\* A mutant of handlePUT: newBlob is not validated.
handlePUTNoNewCheck(q, r) ==
    IF q.arg = "" THEN Fail(q, r, 400, "No old blob provided")
    ELSE Next1(q, "scan")

\* handlePUT up to its Scan: oldBlob, then newBlob, must not be empty.
handlePUT(q, r) ==
    IF q.arg = "" THEN Fail(q, r, 400, "No old blob provided")
    ELSE IF q.newBlob = "" THEN Fail(q, r, 400, "No new blob provided")
    ELSE Next1(q, "scan")

\* A mutant of handleRequest: the switch has no default branch of its own
\* and an unknown method falls into the GET handler.
handleRequestNoDefault(q0, r, in) ==
    LET q == [q0 EXCEPT !.method = in.method, !.arg = in.arg,
                        !.newBlob = in.newBlob]
    IN  CASE in.method = "POST" -> handlePOST(q, r)
          [] in.method = "DELETE" -> handleDELETE(q, r)
          [] in.method = "PUT" -> handlePUT(q, r)
          [] OTHER -> handleGET(q, r)

\* handleRequest's switch on r.Method, entered with a client in hand.
handleRequest(q0, r, in) ==
    LET q == [q0 EXCEPT !.method = in.method, !.arg = in.arg,
                        !.newBlob = in.newBlob]
    IN  CASE in.method = "GET" -> handleGET(q, r)
          [] in.method = "POST" -> handlePOST(q, r)
          [] in.method = "DELETE" -> handleDELETE(q, r)
          [] in.method = "PUT" -> handlePUT(q, r)
          [] OTHER -> Fail(q, r, 405, "Invalid request method")

\* A mutant of getClientFromPool: the length of the channel is not tested
\* before the receive.
getClientFromPoolNoLen(pool, cap) == cap > 0

\* getClientFromPool's test: a handle is taken only from a channel that
\* has capacity and holds at least one.
getClientFromPool(pool, cap) == Len(pool) > 0 /\ cap > 0

\* A mutant of handleRequestNoClient: the method is looked at before the
\* client, so that an unsupported method is answered 405 without one.
handleRequestMethodFirst(r, in) ==
    LET q == [IdleReq EXCEPT !.method = in.method, !.arg = in.arg,
                             !.newBlob = in.newBlob]
    IN  IF in.method \in {"GET", "POST", "DELETE", "PUT"}
        THEN Resp(q, r, 500, "Internal server error", "error", 0, <<>>,
                  FALSE)
        ELSE Resp(q, r, 405, "Invalid request method", "error", 0, <<>>,
                  FALSE)

\* handleRequest when getClientFromPool returned nil.
handleRequestNoClient(r, in) ==
    Resp([IdleReq EXCEPT !.method = in.method, !.arg = in.arg,
                         !.newBlob = in.newBlob],
         r, 500, "Internal server error", "error", 0, <<>>, FALSE)

\* ------------------------------------------------ handlers, call by call

\* The loop over the scanned keys starts at the first key.
Loop(q, ks) == Next1([q EXCEPT !.keys = ks, !.idx = 1], "get")

\* The loop moves to the next key.
Advance(q) == Next1([q EXCEPT !.idx = @ + 1], "get")

LastKey(q) == q.idx = Len(q.keys)

\* The loop is over: of its locals only the key it found (keyToDelete,
\* keyToUpdate; 0 for none) is read again.
Found(q, k) == [q EXCEPT !.keys = <<>>, !.idx = 0, !.key = k]

\* A mutant of handlePOSTScanned: a failed Scan is taken for an empty
\* store, and the handler goes on to its Put.
handlePOSTScannedIgnoresError(q, r, ok, ks) ==
    IF ~ok \/ ks = <<>> THEN Next1(q, "put")
    ELSE Loop(q, ks)

\* handlePOST after its Scan returned (src/main.go:212-218): with no key
\* to compare, the duplicate check is over.
handlePOSTScanned(q, r, ok, ks) ==
    IF ~ok THEN Fail(q, r, 500, "Failed to retrieve blobs")
    ELSE IF ks = <<>> THEN Next1(q, "put")
    ELSE Loop(q, ks)

\* A mutant of handlePOSTGot: the fetched value is not compared with the
\* blob.
handlePOSTGotNoCompare(q, r, ok, value) ==
    IF ~ok THEN Fail(q, r, 500, "Failed to retrieve blob")
    ELSE IF LastKey(q) THEN Next1(Found(q, 0), "put")
    ELSE Advance(q)

\* handlePOST after one Get of the duplicate check (src/main.go:219-230).
handlePOSTGot(q, r, ok, value) ==
    IF ~ok THEN Fail(q, r, 500, "Failed to retrieve blob")
    ELSE IF value = q.arg THEN Fail(q, r, 409, "Blob already exists")
    ELSE IF LastKey(q) THEN Next1(Found(q, 0), "put")
    ELSE Advance(q)

\* A mutant of handlePOSTPut: the response is an error although the Put
\* succeeded.
handlePOSTPutThenError(q, r, ok) ==
    IF ~ok THEN Fail(q, r, 500, "Failed to save blob")
    ELSE Fail(q, r, 500, "Failed to marshal response")

\* handlePOST after its Put (src/main.go:233-249).
handlePOSTPut(q, r, ok) ==
    IF ~ok THEN Fail(q, r, 500, "Failed to save blob")
    ELSE Ok(q, r, "blob", 0, <<q.arg>>, TRUE)

\* handleDELETE after its Scan (src/main.go:260-267, 280-284).
handleDELETEScanned(q, r, ok, ks) ==
    IF ~ok THEN Fail(q, r, 500, "Failed to retrieve blobs")
    ELSE IF ks = <<>> THEN Fail(q, r, 404, "Blob not found")
    ELSE Loop(q, ks)

\* A mutant of handleDELETEGot: on a match the first scanned key is taken
\* in place of the key just fetched.
handleDELETEGotFirstKey(q, r, ok, value) ==
    IF ~ok THEN Fail(q, r, 500, "Failed to retrieve blob")
    ELSE IF value = q.arg
         THEN Next1(Found(q, q.keys[1]), "delete")
    ELSE IF LastKey(q) THEN Fail(q, r, 404, "Blob not found")
    ELSE Advance(q)

\* A mutant of handleDELETEGot: the loop has no break; it remembers the key
\* that matched and goes on, so the last matching key is the one deleted.
handleDELETEGotNoBreak(q, r, ok, value) ==
    LET k == IF value = q.arg THEN q.keys[q.idx] ELSE q.key
    IN  IF ~ok THEN Fail(q, r, 500, "Failed to retrieve blob")
        ELSE IF ~LastKey(q) THEN Advance([q EXCEPT !.key = k])
        ELSE IF k # 0 THEN Next1(Found(q, k), "delete")
        ELSE Fail(q, r, 404, "Blob not found")

\* handleDELETE after one Get of the search (src/main.go:268-284).
handleDELETEGot(q, r, ok, value) ==
    IF ~ok THEN Fail(q, r, 500, "Failed to retrieve blob")
    ELSE IF value = q.arg
         THEN Next1(Found(q, q.keys[q.idx]), "delete")
    ELSE IF LastKey(q) THEN Fail(q, r, 404, "Blob not found")
    ELSE Advance(q)

\* A mutant of handleDELETEDeleted: after a Delete the handler scans again
\* for further keys holding the blob.
handleDELETEDeletedAgain(q, r, ok) ==
    IF ~ok THEN Fail(q, r, 500, "Failed to delete blob")
    ELSE Next1(q, "scan")

\* handleDELETE after its Delete (src/main.go:286-302).
handleDELETEDeleted(q, r, ok) ==
    IF ~ok THEN Fail(q, r, 500, "Failed to delete blob")
    ELSE [q |-> Returned(q),
          w |-> Resp(q, r, 200, "Blob deleted successfully", "message", 0,
                     <<>>, TRUE)]

\* handlePUT after its Scan (src/main.go:319-326, 339-343).
handlePUTScanned(q, r, ok, ks) ==
    IF ~ok THEN Fail(q, r, 500, "Failed to retrieve blobs")
    ELSE IF ks = <<>> THEN Fail(q, r, 404, "Blob not found")
    ELSE Loop(q, ks)

\* A mutant of handlePUTGot: on a match the first scanned key is taken in
\* place of the key just fetched.
handlePUTGotFirstKey(q, r, ok, value) ==
    IF ~ok THEN Fail(q, r, 500, "Failed to retrieve blob")
    ELSE IF value = q.arg
         THEN Next1(Found(q, q.keys[1]), "put")
    ELSE IF LastKey(q) THEN Fail(q, r, 404, "Blob not found")
    ELSE Advance(q)

\* A mutant of handlePUTGot: when no key matched, the last key scanned is
\* updated.
handlePUTGotNo404(q, r, ok, value) ==
    IF ~ok THEN Fail(q, r, 500, "Failed to retrieve blob")
    ELSE IF value = q.arg \/ LastKey(q)
         THEN Next1(Found(q, q.keys[q.idx]), "put")
    ELSE Advance(q)

\* A mutant of handlePUTGot: the search also checks for a duplicate, and a
\* fetched value equal to newBlob is answered 409.
handlePUTGotRejectsDuplicate(q, r, ok, value) ==
    IF ~ok THEN Fail(q, r, 500, "Failed to retrieve blob")
    ELSE IF value = q.arg
         THEN Next1(Found(q, q.keys[q.idx]), "put")
    ELSE IF value = q.newBlob THEN Fail(q, r, 409, "Blob already exists")
    ELSE IF LastKey(q) THEN Fail(q, r, 404, "Blob not found")
    ELSE Advance(q)

\* handlePUT after one Get of the search (src/main.go:327-343).
handlePUTGot(q, r, ok, value) ==
    IF ~ok THEN Fail(q, r, 500, "Failed to retrieve blob")
    ELSE IF value = q.arg
         THEN Next1(Found(q, q.keys[q.idx]), "put")
    ELSE IF LastKey(q) THEN Fail(q, r, 404, "Blob not found")
    ELSE Advance(q)

\* handlePUT after its Put (src/main.go:345-361).
handlePUTPut(q, r, ok) ==
    IF ~ok THEN Fail(q, r, 500, "Failed to update blob")
    ELSE Ok(q, r, "blob", 0, <<q.newBlob>>, TRUE)

\* A mutant of handleGETAllScanned: an empty scan is answered 200 with an
\* empty list.
handleGETAllScannedNo404(q, r, ok, ks) ==
    IF ~ok THEN Fail(q, r, 500, "Failed to retrieve blobs")
    ELSE IF Len(ks) = 0 THEN Ok(q, r, "blobs", 0, <<>>, FALSE)
    ELSE Loop(q, ks)

\* handleGETAll after its Scan (src/main.go:378-391).
handleGETAllScanned(q, r, ok, ks) ==
    IF ~ok THEN Fail(q, r, 500, "Failed to retrieve blobs")
    ELSE IF Len(ks) = 0 THEN Fail(q, r, 404, "No blobs found")
    ELSE Loop(q, ks)

\* A mutant of handleGETAllGot: the value of the last key is not appended.
handleGETAllGotDropsLast(q, r, ok, value) ==
    IF ~ok THEN Fail(q, r, 500, "Failed to retrieve blob")
    ELSE IF LastKey(q) THEN Ok(q, r, "blobs", 0, q.blobs, FALSE)
    ELSE Advance([q EXCEPT !.blobs = Append(@, value)])

\* handleGETAll after one Get (src/main.go:392-411).
handleGETAllGot(q, r, ok, value) ==
    IF ~ok THEN Fail(q, r, 500, "Failed to retrieve blob")
    ELSE LET q1 == [q EXCEPT !.blobs = Append(@, value)]
         IN  IF LastKey(q1) THEN Ok(q1, r, "blobs", 0, q1.blobs, FALSE)
             ELSE Advance(q1)

\* handleGETRandom after its Scan (src/main.go:415-425); the index is
\* drawn when the key is fetched.
handleGETRandomScanned(q, r, ok, ks) ==
    IF ~ok THEN Fail(q, r, 500, "Failed to retrieve blobs")
    ELSE IF Len(ks) = 0 THEN Fail(q, r, 404, "No blobs found")
    ELSE Next1([q EXCEPT !.keys = ks], "get")

\* handleGETRandom after its Get (src/main.go:431-448).
handleGETRandomGot(q, r, ok, value) ==
    IF ~ok THEN Fail(q, r, 500, "Failed to retrieve blob")
    ELSE Ok(q, r, "blob", 0, <<value>>, FALSE)

\* countBlobs: -1 for a nil client or a failed Scan, else the number of
\* keys the Scan returned.
countBlobs(client, ok, ks) ==
    IF client = NoHandle THEN -1
    ELSE IF ~ok THEN -1
    ELSE Len(ks)

\* handleGETCount: the count goes out with status 200 whatever it is.
handleGETCount(q, r, ok, ks) ==
    Ok(q, r, "count", countBlobs(q.client, ok, ks), <<>>, FALSE)

\* The handler that is running for request record q.
IsRandom(q) == q.method = "GET" /\ q.arg \notin {"count", "all"}

Scanned(q, r, ok, ks) ==
    CASE q.method = "POST" -> handlePOSTScanned(q, r, ok, ks)
      [] q.method = "DELETE" -> handleDELETEScanned(q, r, ok, ks)
      [] q.method = "PUT" -> handlePUTScanned(q, r, ok, ks)
      [] q.method = "GET" /\ q.arg = "all" -> handleGETAllScanned(q, r, ok, ks)
      [] OTHER -> handleGETRandomScanned(q, r, ok, ks)

Got(q, r, ok, value) ==
    CASE q.method = "POST" -> handlePOSTGot(q, r, ok, value)
      [] q.method = "DELETE" -> handleDELETEGot(q, r, ok, value)
      [] q.method = "PUT" -> handlePUTGot(q, r, ok, value)
      [] q.method = "GET" /\ q.arg = "all" -> handleGETAllGot(q, r, ok, value)
      [] OTHER -> handleGETRandomGot(q, r, ok, value)

\* ---------------------------------------------------------- the store

\* What client.Get(ctx, key) may return: an error, or the stored value. For
\* a key that is gone the store either reports an error or returns no
\* value (an empty byte slice) without one.
GetResults(st, k) ==
    {[ok |-> FALSE, value |-> ""]}
      \cup {[ok |-> TRUE, value |-> IF st[k] = Absent THEN "" ELSE st[k]]}

\* A mutant of NewKey: the key does not carry the clock's reading.
NewKeyFixed(t) == 1

\* The key handlePOST writes: "blob:" and the clock's reading.
NewKey(t) == t

\* ------------------------------------------------------------ actions

Quiet == w' = NoResp /\ monLog' = NoLog

\* A mutant of ChanSend: the value joins the buffer at its front, so the
\* next receive takes the value sent last.
ChanSendFront(h, qs) ==
    /\ recvq # <<>> \/ Len(clientPool) < capPool
    /\ IF recvq # <<>>
       THEN /\ recvq' = Tail(recvq)
            /\ clientPool' = clientPool
            /\ IF Head(recvq) = Mon
               THEN /\ mon' = [pc |-> "count", client |-> h]
                    /\ taken' = taken + 1
                    /\ rq' = qs
               ELSE /\ rq' = [qs EXCEPT ![Head(recvq)].client = h,
                                        ![Head(recvq)].pc = "dispatch"]
                    /\ UNCHANGED <<mon, taken>>
       ELSE /\ clientPool' = <<h>> \o clientPool
            /\ recvq' = recvq
            /\ rq' = qs
            /\ UNCHANGED <<mon, taken>>

\* clientPool <- h on a Go channel: a blocked receiver, if there is one,
\* is handed the value directly and resumes; otherwise the value joins the
\* buffer. qs is rq as the sender's own step leaves it.
ChanSend(h, qs) ==
    /\ recvq # <<>> \/ Len(clientPool) < capPool
    /\ IF recvq # <<>>
       THEN /\ recvq' = Tail(recvq)
            /\ clientPool' = clientPool
            /\ IF Head(recvq) = Mon
               THEN /\ mon' = [pc |-> "count", client |-> h]
                    /\ taken' = taken + 1
                    /\ rq' = qs
               ELSE /\ rq' = [qs EXCEPT ![Head(recvq)].client = h,
                                        ![Head(recvq)].pc = "dispatch"]
                    /\ UNCHANGED <<mon, taken>>
       ELSE /\ clientPool' = Append(clientPool, h)
            /\ recvq' = recvq
            /\ rq' = qs
            /\ UNCHANGED <<mon, taken>>

\* A request arrives: handleRequest calls getClientFromPool, which reads
\* len and cap of the channel. Without a client the request is answered
\* 500 at once (src/main.go:162-168).
GetClient(r) ==
    /\ r <= nreq
    /\ rq[r].pc = "idle"
    /\ IF getClientFromPool(clientPool, capPool)
       THEN /\ rq' = [rq EXCEPT ![r] = [IdleReq EXCEPT !.pc = "recv"]]
            /\ w' = NoResp
       ELSE /\ \E in \in Inputs : w' = handleRequestNoClient(r, in)
            /\ rq' = rq
    /\ monLog' = NoLog
    /\ UNCHANGED <<clientPool, capPool, recvq, store, now, mon, taken, nreq, tmax>>

\* A mutant of Recv: a receive that does not block; on an empty buffer the
\* request goes on with the nil client.
RecvNoBlock(r) ==
    /\ rq[r].pc = "recv"
    /\ IF clientPool # <<>>
       THEN /\ clientPool' = Tail(clientPool)
            /\ rq' = [rq EXCEPT ![r].client = Head(clientPool),
                                ![r].pc = "dispatch"]
       ELSE /\ rq' = [rq EXCEPT ![r].pc = "dispatch"]
            /\ clientPool' = clientPool
    /\ Quiet
    /\ UNCHANGED <<capPool, recvq, store, now, mon, taken, nreq, tmax>>

\* A mutant of Recv: the receive hands out the oldest handle of the buffer
\* and leaves it there.
RecvKeeps(r) ==
    /\ rq[r].pc = "recv"
    /\ IF clientPool # <<>>
       THEN /\ rq' = [rq EXCEPT ![r].client = Head(clientPool),
                                ![r].pc = "dispatch"]
            /\ recvq' = recvq
       ELSE /\ recvq' = Append(recvq, r)
            /\ rq' = [rq EXCEPT ![r].pc = "wait"]
    /\ clientPool' = clientPool
    /\ Quiet
    /\ UNCHANGED <<capPool, store, now, mon, taken, nreq, tmax>>

\* getClientFromPool's receive, <-clientPool (src/main.go:124): it takes the
\* oldest handle of the buffer, or blocks when the buffer is empty by now.
Recv(r) ==
    /\ rq[r].pc = "recv"
    /\ IF clientPool # <<>>
       THEN /\ clientPool' = Tail(clientPool)
            /\ rq' = [rq EXCEPT ![r].client = Head(clientPool),
                                ![r].pc = "dispatch"]
            /\ recvq' = recvq
       ELSE /\ recvq' = Append(recvq, r)
            /\ rq' = [rq EXCEPT ![r].pc = "wait"]
            /\ clientPool' = clientPool
    /\ Quiet
    /\ UNCHANGED <<capPool, store, now, mon, taken, nreq, tmax>>

\* handleRequest's switch, and the chosen handler up to its first storage
\* call.
Dispatch(r) ==
    /\ rq[r].pc = "dispatch"
    /\ \E in \in Inputs :
         LET out == handleRequest(rq[r], r, in)
         IN  rq' = [rq EXCEPT ![r] = out.q] /\ w' = out.w
    /\ monLog' = NoLog
    /\ UNCHANGED <<clientPool, capPool, recvq, store, now, mon, taken, nreq, tmax>>

\* client.Scan in handlePOST, handleDELETE, handlePUT, handleGETAll and
\* handleGETRandom, and the handler's code up to its next call.
ScanStep(r) ==
    /\ rq[r].pc = "scan"
    /\ \E ok \in BOOLEAN :
         LET out == Scanned(Did(rq[r], "scan", ok, RequestContext), r, ok,
                          Scan(store))
         IN  rq' = [rq EXCEPT ![r] = out.q] /\ w' = out.w
    /\ monLog' = NoLog
    /\ UNCHANGED <<clientPool, capPool, recvq, store, now, mon, taken, nreq, tmax>>

\* client.Get on the loop's current key, or on the key handleGETRandom
\* drew (randGen.Intn(len(keys)), src/main.go:428-431).
GetStep(r) ==
    /\ rq[r].pc = "get"
    /\ \E i \in (IF IsRandom(rq[r]) THEN 1..Len(rq[r].keys)
                 ELSE {rq[r].idx}) :
         \E res \in GetResults(store, rq[r].keys[i]) :
           LET out == Got(Did(rq[r], "get", res.ok, RequestContext), r,
                          res.ok, res.value)
           IN  rq' = [rq EXCEPT ![r] = out.q] /\ w' = out.w
    /\ monLog' = NoLog
    /\ UNCHANGED <<clientPool, capPool, recvq, store, now, mon, taken, nreq, tmax>>

\* A mutant of PutStep: handlePUT's Put is conditional on the key still
\* being stored, and fails when the key is gone.
PutStepIfPresent(r) ==
    /\ rq[r].pc = "put"
    /\ \E ok0 \in BOOLEAN :
         LET post == rq[r].method = "POST"
             ok == ok0 /\ (post \/ store[rq[r].key] # Absent)
             q == Did(rq[r], "put", ok, RequestContext)
             k == IF post THEN NewKey(now) ELSE q.key
             v == IF post THEN q.arg ELSE q.newBlob
             out == IF post THEN handlePOSTPut(q, r, ok)
                    ELSE handlePUTPut(q, r, ok)
         IN  /\ w' = out.w
             /\ IF ok
                THEN /\ store' = [store EXCEPT ![k] = v]
                     /\ rq' = Wrote([rq EXCEPT ![r] = out.q], r)
                ELSE /\ rq' = [rq EXCEPT ![r] = out.q]
                     /\ store' = store
    /\ monLog' = NoLog
    /\ UNCHANGED <<clientPool, capPool, recvq, now, mon, taken, nreq, tmax>>

\* A mutant of PutStep: handlePUT's Put is a compare-and-swap, and fails
\* when the key no longer holds oldBlob.
PutStepIfUnchanged(r) ==
    /\ rq[r].pc = "put"
    /\ \E ok0 \in BOOLEAN :
         LET post == rq[r].method = "POST"
             ok == ok0 /\ (post \/ store[rq[r].key] = rq[r].arg)
             q == Did(rq[r], "put", ok, RequestContext)
             k == IF post THEN NewKey(now) ELSE q.key
             v == IF post THEN q.arg ELSE q.newBlob
             out == IF post THEN handlePOSTPut(q, r, ok)
                    ELSE handlePUTPut(q, r, ok)
         IN  /\ w' = out.w
             /\ IF ok
                THEN /\ store' = [store EXCEPT ![k] = v]
                     /\ rq' = Wrote([rq EXCEPT ![r] = out.q], r)
                ELSE /\ rq' = [rq EXCEPT ![r] = out.q]
                     /\ store' = store
    /\ monLog' = NoLog
    /\ UNCHANGED <<clientPool, capPool, recvq, now, mon, taken, nreq, tmax>>

\* client.Put: handlePOST writes the blob under a new key made from the
\* clock, handlePUT writes newBlob under the key it found. A Put that
\* fails leaves the store as it was.
PutStep(r) ==
    /\ rq[r].pc = "put"
    /\ \E ok \in BOOLEAN :
         LET q == Did(rq[r], "put", ok, RequestContext)
             post == q.method = "POST"
             k == IF post THEN NewKey(now) ELSE q.key
             v == IF post THEN q.arg ELSE q.newBlob
             out == IF post THEN handlePOSTPut(q, r, ok)
                    ELSE handlePUTPut(q, r, ok)
         IN  /\ w' = out.w
             /\ IF ok
                THEN /\ store' = [store EXCEPT ![k] = v]
                     /\ rq' = Wrote([rq EXCEPT ![r] = out.q], r)
                ELSE /\ rq' = [rq EXCEPT ![r] = out.q]
                     /\ store' = store
    /\ monLog' = NoLog
    /\ UNCHANGED <<clientPool, capPool, recvq, now, mon, taken, nreq, tmax>>

\* client.Delete of the key handleDELETE found.
DeleteStep(r) ==
    /\ rq[r].pc = "delete"
    /\ \E ok \in BOOLEAN :
         LET q == Did(rq[r], "delete", ok, RequestContext)
             out == handleDELETEDeleted(q, r, ok)
         IN  /\ w' = out.w
             /\ IF ok
                THEN /\ store' = [store EXCEPT ![q.key] = Absent]
                     /\ rq' = Wrote([rq EXCEPT ![r] = out.q], r)
                ELSE /\ rq' = [rq EXCEPT ![r] = out.q]
                     /\ store' = store
    /\ monLog' = NoLog
    /\ UNCHANGED <<clientPool, capPool, recvq, now, mon, taken, nreq, tmax>>

\* handleGETCount: the Scan inside countBlobs, and the response.
CountStep(r) ==
    /\ rq[r].pc = "count"
    /\ \E ok \in BOOLEAN :
         LET out == handleGETCount(Did(rq[r], "scan", ok, ctx), r, ok,
                                 Scan(store))
         IN  rq' = [rq EXCEPT ![r] = out.q] /\ w' = out.w
    /\ monLog' = NoLog
    /\ UNCHANGED <<clientPool, capPool, recvq, store, now, mon, taken, nreq, tmax>>

\* A mutant of Release: the handler returns without sending its client
\* back.
ReleaseLeaks(r) ==
    /\ rq[r].pc = "release"
    /\ rq' = [rq EXCEPT ![r] = IdleReq]
    /\ Quiet
    /\ UNCHANGED <<clientPool, capPool, recvq, store, now, mon, taken, nreq, tmax>>

\* handleRequest's deferred clientPool <- client (src/main.go:170-172); the
\* request is over.
Release(r) ==
    /\ rq[r].pc = "release"
    /\ ChanSend(rq[r].client, [rq EXCEPT ![r] = IdleReq])
    /\ Quiet
    /\ UNCHANGED <<capPool, store, now, nreq, tmax>>

\* The clock advances.
Tick ==
    /\ now < tmax
    /\ now' = now + 1
    /\ Quiet
    /\ UNCHANGED <<clientPool, capPool, recvq, store, rq, mon, taken, nreq, tmax>>

\* A mutant of MonRecv: a receive that does not block; on an empty buffer
\* the tick counts with the nil client.
MonRecvNoBlock ==
    /\ mon.pc = "sleep"
    /\ IF clientPool # <<>>
       THEN /\ clientPool' = Tail(clientPool)
            /\ mon' = [pc |-> "count", client |-> Head(clientPool)]
            /\ taken' = taken + 1
       ELSE /\ mon' = [pc |-> "count", client |-> NoHandle]
            /\ clientPool' = clientPool
            /\ taken' = taken
    /\ Quiet
    /\ UNCHANGED <<capPool, recvq, store, now, rq, nreq, tmax>>

\* setupMonitoring's goroutine wakes from time.Sleep and evaluates
\* <-clientPool, the argument of countBlobs (src/main.go:153-154): a
\* receive that blocks while the buffer is empty.
MonRecv ==
    /\ mon.pc = "sleep"
    /\ IF clientPool # <<>>
       THEN /\ clientPool' = Tail(clientPool)
            /\ mon' = [pc |-> "count", client |-> Head(clientPool)]
            /\ recvq' = recvq
            /\ taken' = taken + 1
       ELSE /\ recvq' = Append(recvq, Mon)
            /\ mon' = [mon EXCEPT !.pc = "wait"]
            /\ clientPool' = clientPool
            /\ taken' = taken
    /\ Quiet
    /\ UNCHANGED <<capPool, store, now, rq, nreq, tmax>>

\* The monitor's countBlobs and log.Printf (src/main.go:154); the loop then
\* sleeps again. The client it received is not sent back to the channel.
MonCount ==
    /\ mon.pc = "count"
    /\ \E ok \in BOOLEAN :
         monLog' = <<countBlobs(mon.client, ok, Scan(store))>>
    /\ mon' = [pc |-> "sleep", client |-> NoHandle]
    /\ w' = NoResp
    /\ UNCHANGED <<clientPool, capPool, recvq, store, now, rq, taken, nreq, tmax>>

Next ==
    \/ \E r \in Reqs : GetClient(r)
    \/ \E r \in Reqs : Recv(r)
    \/ \E r \in Reqs : Dispatch(r)
    \/ \E r \in Reqs : ScanStep(r)
    \/ \E r \in Reqs : GetStep(r)
    \/ \E r \in Reqs : PutStep(r)
    \/ \E r \in Reqs : DeleteStep(r)
    \/ \E r \in Reqs : CountStep(r)
    \/ \E r \in Reqs : Release(r)
    \/ Tick
    \/ MonRecv
    \/ MonCount

Spec == Init /\ [][Next]_vars

\* A goroutine that can take its next step takes it: the monitor's sleep
\* ends, a storage call returns, a runnable handler is scheduled. Nothing
\* obliges a new request to arrive or the clock to advance.
Step(r) ==
    \/ Recv(r) \/ Dispatch(r) \/ ScanStep(r) \/ GetStep(r) \/ PutStep(r)
    \/ DeleteStep(r) \/ CountStep(r) \/ Release(r)

Fairness ==
    /\ WF_vars(MonRecv)
    /\ WF_vars(MonCount)
    /\ \A r \in Reqs : WF_vars(Step(r))

\* Fair runs of one request at a time beside the monitor.
FairInit == Init /\ nreq = 1

FairSpec == FairInit /\ [][Next]_vars /\ Fairness

\* Concurrent requests over a store of RaceTime keys: the clock advances
\* between and during the requests.
RaceInit == Start([nreq |-> NumReqs, tmax |-> RaceTime])

RaceSpec == RaceInit /\ [][Next]_vars

\* ------------------------------------------- a read that runs on its own

\* The value a Get that succeeds returns for key k.
Fetched(st, k) == (CHOOSE res \in GetResults(st, k) : res.ok).value

\* handleGETAll's loop run to its end on store st, every Get succeeding.
RECURSIVE GetAllLoop(_, _)
GetAllLoop(q, st) ==
    LET out == handleGETAllGot(Called(q, "get"), 0, TRUE,
                               Fetched(st, q.keys[q.idx]))
    IN  IF out.w # NoResp THEN out.w ELSE GetAllLoop(out.q, st)

\* The response of a GET action=all that holds a client and runs on store
\* st with no write in between and every storage call succeeding.
RunGETAll(st) ==
    LET q == [IdleReq EXCEPT !.pc = "scan", !.client = 1, !.method = "GET",
                             !.arg = "all"]
        out == handleGETAllScanned(Called(q, "scan"), 0, TRUE, Scan(st))
    IN  IF out.w # NoResp THEN out.w ELSE GetAllLoop(out.q, st)

\* The blobs a GET on the random path can answer with on store st, one per
\* index Intn can draw.
RunGETRandom(st) ==
    LET q == [IdleReq EXCEPT !.pc = "scan", !.client = 1, !.method = "GET",
                             !.arg = "random"]
        out == handleGETRandomScanned(Called(q, "scan"), 0, TRUE, Scan(st))
    IN  IF out.w # NoResp THEN {}
        ELSE {handleGETRandomGot(Called(out.q, "get"), 0, TRUE,
                                 Fetched(st, out.q.keys[i])).w.blobs[1] :
                i \in 1..Len(out.q.keys)}

\* ------------------------------------------------------------- claims

Holders(h) == {r \in Reqs : rq[r].client = h}
HeldByRequests == {r \in Reqs : rq[r].client # NoHandle}
MonHolds(h) == mon.pc = "count" /\ mon.client = h
InPool(h) == Cardinality({i \in 1..Len(clientPool) : clientPool[i] = h})
Responded == w.status # 0

\* C1: in every reachable state the handles in the pool plus the handles
\* held by requests in flight plus the handle held by a monitor tick that is
\* still counting number the pool size fixed at construction.
C1_HandleConservation ==
    Len(clientPool) + Cardinality(HeldByRequests)
      + (IF mon.pc = "count" THEN 1 ELSE 0) = capPool

\* C2: no request ever waits on the pool: a request for which no handle is
\* available gets nil at once, also when it loses a race for the last
\* handle.
C2_AcquireNeverWaits == \A r \in Reqs : rq[r].pc # "wait"

\* The step in which a request gives up its handle: its release step, which
\* puts that very handle back on the channel, into the buffer or into the
\* hands of the receiver blocked first.
C3_ReleaseStep ==
    \A r \in Reqs :
      (rq[r].client # NoHandle /\ rq'[r].client # rq[r].client) =>
        /\ rq[r].pc = "release" /\ rq'[r] = IdleReq
        /\ IF recvq = <<>>
           THEN clientPool' = Append(clientPool, rq[r].client)
           ELSE /\ clientPool' = clientPool
                /\ IF Head(recvq) = Mon THEN mon'.client = rq[r].client
                   ELSE rq'[Head(recvq)].client = rq[r].client

\* A response written with a handle in hand leaves the request at its
\* release step, still holding the handle.
C3_ExitPaths ==
    (Responded /\ w.acquired) =>
        /\ rq[w.req].pc = "release" /\ rq[w.req].client # NoHandle
        /\ w.status \in {200, 400, 404, 405, 409, 500}

\* With no request in flight the pool holds every handle the monitor has
\* not taken.
C3_Quiescent ==
    (\A r \in Reqs : rq[r].pc = "idle") => Len(clientPool) = capPool - taken

\* C3: a request that holds a handle gives it up only in its release step,
\* which puts that very handle back on the channel exactly once; every
\* response written with a handle in hand, whatever its status (200, 400,
\* 404, 405, 409, 500), leaves the request at that release step; and
\* whenever no request is in flight the pool holds every handle the monitor
\* has not taken, so a request running alone leaves the pool's count as it
\* found it.
C3_GuaranteedRelease ==
    [](C3_ExitPaths /\ C3_Quiescent) /\ [][C3_ReleaseStep]_vars

\* C3's case: a POST has stored a blob, its request is over and the pool is
\* full again.
C3_Witness ==
    /\ StoredKeys(store) # {}
    /\ \A r \in Reqs : rq[r].pc = "idle"
    /\ capPool > 0 /\ taken = 0 /\ Len(clientPool) = capPool

\* C4: with a pool of at least one handle, in every fair run the monitor
\* completes a tick (acquires a handle, counts, logs the count) again and
\* again.
C4_MonitorTicksForever == (capPool >= 1) => []<>(monLog # NoLog)

\* C5: a request that arrives while the pool holds no handle is answered
\* 500 in that step, has made no storage call, and leaves the pool, the
\* handles held by others and the store as they were.
C5_PoolExhaustion ==
    [][\A r \in Reqs :
         (rq[r].pc = "idle" /\ clientPool = <<>>
            /\ (rq'[r] # rq[r] \/ w'.req = r)) =>
           /\ w'.req = r /\ w'.status = 500 /\ w'.calls = <<>>
           /\ ~w'.acquired
           /\ rq' = rq /\ clientPool' = clientPool /\ recvq' = recvq
           /\ mon' = mon /\ store' = store]_vars

\* C5's case: a request was just refused while another request holds the
\* pool's last handle.
C5_Witness ==
    /\ Responded /\ w.status = 500 /\ ~w.acquired
    /\ capPool > 0 /\ clientPool = <<>> /\ HeldByRequests # {}

\* C6: every handle is in exactly one place: in the pool once, or held by
\* exactly one task.
C6_HandleExclusivity ==
    \A h \in 1..capPool :
      InPool(h) + Cardinality(Holders(h)) + (IF MonHolds(h) THEN 1 ELSE 0) = 1

Unsupported(m) == m \notin {"", "GET", "POST", "PUT", "DELETE"}

MissingParam(x) ==
    \/ x.method \in {"POST", "DELETE"} /\ x.arg = ""
    \/ x.method = "PUT" /\ (x.arg = "" \/ x.newBlob = "")

\* C8 as stated: a POST or DELETE without blob, and a PUT without oldBlob
\* or newBlob, is always answered 400 and makes no storage call.
C8_Always400 ==
    (Responded /\ MissingParam(w)) =>
        w.status = 400 /\ w.calls = <<>> /\ ~w.wrote

\* C8 amended: such a request is answered 400 when it obtained a handle and
\* 500 when the pool was empty; in both cases it makes no storage call and
\* the store is unchanged, and no request in flight past validation lacks
\* a parameter.
C8_ValidationFirst ==
    /\ (Responded /\ MissingParam(w)) =>
          /\ w.calls = <<>> /\ ~w.wrote
          /\ IF w.acquired THEN w.status = 400 ELSE w.status = 500
    /\ \A r \in Reqs : ~MissingParam(rq[r])

C8_Witness ==
    /\ Responded /\ w.method = "PUT" /\ w.arg # "" /\ w.newBlob = ""
    /\ w.status = 400

\* The step just taken answered a POST of a blob that had run beside no
\* writer; the store before the step is then the store the request found.
PostAnswered == w'.status # 0 /\ w'.method = "POST" /\ w'.arg # "" /\ ~w'.dirty

Stored(st, b) == \E k \in StoredKeys(st) : st[k] = b
InWindow(st, b) == \E k \in Range(Scan(st)) : st[k] = b

\* C9 as stated: whenever some stored key holds b, a POST of b that runs
\* without concurrent writers is answered 409 and the store is unchanged.
C9_Always409 ==
    [][(PostAnswered /\ Stored(store, w'.arg)) =>
          (w'.status = 409 /\ store' = store)]_vars

\* C9 amended: when a key inside the scan window holds b, a POST of b that
\* obtained a handle and runs without concurrent writers is answered 409,
\* or 500 when its Scan or one of its Gets fails; it never calls Put and
\* the store is unchanged.
C9_DuplicateRejected ==
    [][(PostAnswered /\ w'.acquired /\ InWindow(store, w'.arg)) =>
          /\ \/ w'.status = 409
             \/ /\ w'.status = 500
                /\ w'.msg \in {"Failed to retrieve blobs",
                               "Failed to retrieve blob"}
          /\ \A i \in 1..Len(w'.calls) : w'.calls[i] \in {"scan", "get"}
          /\ store' = store]_vars

C9_Witness ==
    /\ Responded /\ w.method = "POST" /\ w.status = 409 /\ ~w.dirty
    /\ InWindow(store, w.arg)

PostStored == Responded /\ w.method = "POST" /\ w.status = 200

\* C10 as stated: once a POST of b is answered 200, a GET action=all that
\* follows with no write in between answers 200 with b among its blobs, and
\* b is among the blobs a random GET can answer with.
C10_AlwaysReadBack ==
    PostStored =>
        /\ RunGETAll(store).status = 200
        /\ w.arg \in Range(RunGETAll(store).blobs)
        /\ w.arg \in RunGETRandom(store)

\* C10 amended: the same, provided the store then holds no more keys than
\* the scan limit (and the GET obtains a handle and its storage calls
\* succeed).
C10_ReadBack ==
    (PostStored /\ Cardinality(StoredKeys(store)) <= ScanLimit) =>
        /\ RunGETAll(store).status = 200
        /\ w.arg \in Range(RunGETAll(store).blobs)
        /\ w.arg \in RunGETRandom(store)

C10_Witness ==
    /\ PostStored /\ Cardinality(StoredKeys(store)) = ScanLimit
    /\ \E k \in StoredKeys(store) : store[k] # w.arg

\* The step just taken answered a request of method m that had run beside
\* no writer: the store before the step is the store the request found.
Answered(m) == w'.status # 0 /\ w'.method = m /\ ~w'.dirty

\* The first key in scan order, inside the scan window, that holds b.
FirstMatch(st, b) ==
    LET ks == Scan(st)
        i == CHOOSE i \in 1..Len(ks) :
               st[ks[i]] = b /\ \A j \in 1..(i - 1) : st[ks[j]] # b
    IN  ks[i]

Differ(st1, st2) == {k \in Times : st1[k] # st2[k]}
ScanFailed == {"Failed to retrieve blobs", "Failed to retrieve blob"}

\* The count a GET action=count reports on store st when its Scan succeeds.
RunCount(st) == countBlobs(1, TRUE, Scan(st))

\* C11 as stated: whenever some key holds oldBlob, a PUT(oldBlob, newBlob)
\* that runs alone is answered 200, the matched key then holds newBlob, the
\* set of keys is unchanged, exactly one value differs from before and the
\* matched key no longer holds oldBlob.
C11_AlwaysUpdated ==
    [][(Answered("PUT") /\ Stored(store, w'.arg)) =>
          /\ w'.status = 200
          /\ \E k \in StoredKeys(store) :
               /\ store[k] = w'.arg
               /\ store' = [store EXCEPT ![k] = w'.newBlob]
               /\ store'[k] # w'.arg
          /\ StoredKeys(store') = StoredKeys(store)
          /\ Cardinality(Differ(store, store')) = 1]_vars

\* C11 amended: whenever a key inside the scan window holds oldBlob, a
\* PUT(oldBlob, newBlob) with a non-empty newBlob that obtained a handle and
\* runs alone is answered 200, or 500 with the store unchanged when one of
\* its storage calls fails; on 200 the first matching key in scan order
\* holds newBlob, the set of keys is unchanged, and when newBlob differs
\* from oldBlob exactly that one value differs and the key no longer holds
\* oldBlob.
C11_Update ==
    [][(Answered("PUT") /\ w'.acquired /\ w'.newBlob # ""
          /\ InWindow(store, w'.arg)) =>
          \/ /\ w'.status = 200
             /\ LET k == FirstMatch(store, w'.arg)
                IN  /\ store' = [store EXCEPT ![k] = w'.newBlob]
                    /\ (w'.newBlob # w'.arg) =>
                         (Differ(store, store') = {k} /\ store'[k] # w'.arg)
             /\ StoredKeys(store') = StoredKeys(store)
          \/ /\ w'.status = 500
             /\ w'.msg \in ScanFailed \cup {"Failed to update blob"}
             /\ store' = store]_vars

C11_Witness ==
    /\ Responded /\ w.method = "PUT" /\ w.status = 200 /\ ~w.dirty
    /\ w.newBlob # w.arg
    /\ Cardinality(StoredKeys(store)) >= 2

\* C12 as stated: whenever no stored value equals oldBlob, a PUT with that
\* oldBlob is answered 404 whatever newBlob is, and the store is unchanged.
C12_Always404 ==
    [][(Answered("PUT") /\ ~Stored(store, w'.arg)) =>
          (w'.status = 404 /\ store' = store)]_vars

\* C12 amended: whenever no stored value equals oldBlob, a PUT with that
\* oldBlob and any newBlob, both non-empty, that obtained a handle and runs
\* beside no writer is answered 404, or 500 when its Scan or one of its Gets
\* fails; it never calls Put and the store is unchanged.
C12_UpdateAbsent ==
    [][(Answered("PUT") /\ w'.acquired /\ ~MissingParam(w')
          /\ ~Stored(store, w'.arg)) =>
          /\ \/ w'.status = 404
             \/ w'.status = 500 /\ w'.msg \in ScanFailed
          /\ \A i \in 1..Len(w'.calls) : w'.calls[i] \in {"scan", "get"}
          /\ store' = store]_vars

C12_Witness ==
    /\ Responded /\ w.method = "PUT" /\ w.status = 404 /\ ~w.dirty
    /\ StoredKeys(store) # {} /\ ~Stored(store, w.arg)

\* C13 as stated: whenever some key holds blob, a DELETE of blob that runs
\* alone is answered 200, removes exactly one key, one that held blob,
\* leaves every other key and value as it was, and the count reported right
\* after is one less than the count reported right before.
C13_AlwaysDeleted ==
    [][(Answered("DELETE") /\ Stored(store, w'.arg)) =>
          /\ w'.status = 200
          /\ \E k \in StoredKeys(store) :
               store[k] = w'.arg /\ store' = [store EXCEPT ![k] = Absent]
          /\ RunCount(store') = RunCount(store) - 1]_vars

\* C13 amended: whenever a key inside the scan window holds blob, a DELETE
\* of blob that obtained a handle and runs alone is answered 200, or 500
\* with the store unchanged when one of its storage calls fails; on 200 it
\* removes exactly the first matching key in scan order and leaves every
\* other key and value as it was, and when the store held no more keys than
\* the scan limit the count reported right after (by a count whose Scan
\* succeeds) is one less than the count right before.
C13_Delete ==
    [][(Answered("DELETE") /\ w'.acquired /\ InWindow(store, w'.arg)) =>
          \/ /\ w'.status = 200
             /\ LET k == FirstMatch(store, w'.arg)
                IN  /\ store' = [store EXCEPT ![k] = Absent]
                    /\ StoredKeys(store') = StoredKeys(store) \ {k}
             /\ (Cardinality(StoredKeys(store)) <= ScanLimit) =>
                  RunCount(store') = RunCount(store) - 1
          \/ /\ w'.status = 500
             /\ w'.msg \in ScanFailed \cup {"Failed to delete blob"}
             /\ store' = store]_vars

C13_Witness ==
    /\ Responded /\ w.method = "DELETE" /\ w.status = 200 /\ ~w.dirty
    /\ StoredKeys(store) # {}

Occurs(seq, b) == Cardinality({i \in 1..Len(seq) : seq[i] = b})
Holding(st, b) == Cardinality({k \in StoredKeys(st) : st[k] = b})
AllAnswered ==
    Responded /\ w.method = "GET" /\ w.arg = "all" /\ ~w.dirty

\* Every stored value is in the list, one entry per stored key.
ListsAll(blobs, st) ==
    /\ Len(blobs) = Cardinality(StoredKeys(st))
    /\ \A b \in Blobs : Occurs(blobs, b) = Holding(st, b)

\* C14 as stated: GET action=all is answered 404 when the store holds no
\* blob, and with N >= 1 blobs stored it is answered 200 with a list that
\* contains all N stored values, one entry per stored key.
C14_AlwaysAll ==
    AllAnswered =>
        IF StoredKeys(store) = {} THEN w.status = 404
        ELSE w.status = 200 /\ ListsAll(w.blobs, store)

\* C14 amended: a GET action=all that obtained a handle, runs beside no
\* writer and whose storage calls succeed (500 otherwise) is answered 404
\* when the store holds no blob and 200 with the values of the keys its
\* Scan returned, in scan order, when it holds N >= 1: all N values, one
\* entry per key, when N is at most the scan limit.
C14_GetAll ==
    (AllAnswered /\ w.acquired) =>
        \/ w.status = 500 /\ w.msg \in ScanFailed
        \/ IF StoredKeys(store) = {} THEN w.status = 404
           ELSE /\ w.status = 200
                /\ w.blobs = [i \in 1..Len(Scan(store)) |->
                                store[Scan(store)[i]]]
                /\ (Cardinality(StoredKeys(store)) <= ScanLimit) =>
                     ListsAll(w.blobs, store)

C14_Witness ==
    /\ AllAnswered /\ w.status = 200
    /\ Len(w.blobs) = ScanLimit
    /\ Cardinality(StoredKeys(store)) = ScanLimit

CountAnswered == Responded /\ w.method = "GET" /\ w.arg = "count"

\* C15: GET action=count never answers with a negative count: it answers
\* 200 with the number of keys its Scan returned, or 500 when the Scan
\* fails (or no handle is to be had).
C15_CountNonNegative ==
    CountAnswered =>
        IF w.status = 200
        THEN w.kind = "count" /\ w.count >= 0 /\ w.count = Len(Scan(store))
        ELSE w.status = 500

\* C16: a POST answered 200 has written its blob under a key that was not
\* in the store, whoever wrote before or beside it: nothing is overwritten
\* and the store grows by exactly one key.
C16_KeyUniqueness ==
    [][(w'.status = 200 /\ w'.method = "POST") =>
          \E k \in Times \ StoredKeys(store) :
            /\ store' = [store EXCEPT ![k] = w'.arg]
            /\ Cardinality(StoredKeys(store')) =
                 Cardinality(StoredKeys(store)) + 1]_vars

\* A POST that has passed its duplicate check and is about to call Put.
PastCheck(r) == rq[r].pc = "put" /\ rq[r].method = "POST"

\* The Put of request r's POST succeeds: 200, and the blob is under the key
\* made from the clock with every other key as it was.
PutSucceeds(r) ==
    /\ PutStep(r)
    /\ w'.req = r /\ w'.status = 200
    /\ store' = [store EXCEPT ![now] = rq[r].arg]

\* C17: nothing is checked again after the duplicate check: from every
\* state in which a POST has passed it, whatever other requests have
\* written since, the POST can go on to be answered 200 with its blob
\* stored under the key of the current clock reading and every other key
\* untouched, and its Put step does nothing else than that or fail with
\* 500; so of two POSTs of one value that both passed the check on a store
\* without it, both are answered 200 and, their clock readings differing,
\* two keys hold the value.
C17_CreateRace ==
    /\ [](\A r \in Reqs : PastCheck(r) => ENABLED PutSucceeds(r))
    /\ [][\A r \in Reqs :
            (PastCheck(r) /\ w'.req = r /\ w'.status # 0) =>
              \/ /\ w'.status = 200
                 /\ store' = [store EXCEPT ![now] = rq[r].arg]
              \/ /\ w'.status = 500 /\ w'.msg = "Failed to save blob"
                 /\ store' = store]_vars

\* C17's case: two POSTs of one value both scanned an empty store; one has
\* just been answered 200 and its key holds the value, the other has passed
\* its check and is about to write, and the clock can still advance.
C17_Witness ==
    \E r \in Reqs :
      /\ Responded /\ w.method = "POST" /\ w.status = 200 /\ w.req # r
      /\ w.calls = <<"scan", "put">>
      /\ PastCheck(r) /\ rq[r].arg = w.arg /\ rq[r].calls = <<"scan">>
      /\ Holding(store, w.arg) = 1 /\ now < tmax

\* The outcome of C17's race: the POST just answered 200 scanned an empty
\* store, and two keys hold its value.
C17_Outcome ==
    /\ Responded /\ w.method = "POST" /\ w.status = 200 /\ w.dirty
    /\ w.calls = <<"scan", "put">>
    /\ Holding(store, w.arg) = 2

\* The key request r's Get fetches has been removed since r scanned it.
FetchesRemoved(r) ==
    /\ rq[r].pc = "get"
    /\ IF IsRandom(rq[r])
       THEN \A i \in 1..Len(rq[r].keys) : store[rq[r].keys[i]] = Absent
       ELSE store[rq[r].keys[rq[r].idx]] = Absent

\* C18: when a request fetches a key that a concurrent DELETE removed after
\* the request scanned it, the request answers 500 in that step; it never
\* goes on or answers 200.
C18_FetchAfterDelete ==
    [][\A r \in Reqs :
         (FetchesRemoved(r) /\ GetStep(r)) =>
           (w'.req = r /\ w'.status = 500)]_vars

\* The monitor is blocked in its receive.
MonWaits == mon.pc = "wait"

\* C19: a tick that finds the pool empty blocks in its receive, queued with
\* the blocked request handlers, and logs nothing; the monitor leaves the
\* wait only by being handed a handle that a request releases; and a count
\* is logged only by a tick that holds a handle.
C19_MonitorBlocks ==
    /\ [](MonWaits =>
            /\ mon.client = NoHandle /\ monLog = NoLog
            /\ Occurs(recvq, Mon) = 1 /\ clientPool = <<>>)
    /\ [][/\ (mon.pc = "sleep" /\ mon' # mon /\ clientPool = <<>>) =>
               (MonWaits' /\ recvq' = Append(recvq, Mon))
          /\ (MonWaits /\ ~MonWaits') =>
               /\ mon'.pc = "count"
               /\ \E r \in Reqs :
                    /\ rq[r].pc = "release" /\ rq'[r].pc = "idle"
                    /\ mon'.client = rq[r].client
                    /\ rq[r].client # NoHandle
          /\ (monLog' # NoLog) =>
               /\ mon.pc = "count" /\ mon.client \in 1..capPool
               /\ \A r \in Reqs : rq[r].client # mon.client]_vars

\* C19's case: a tick fired on an empty pool and the monitor is blocked
\* while a request still holds a handle.
C19_Witness ==
    MonWaits /\ capPool > 0 /\ HeldByRequests # {}

StorageSteps == {"scan", "get", "put", "delete", "count"}

\* The order of a request's steps: acquire (the test, then the receive,
\* which may block), dispatch, the handler's storage calls, release.
PcOrder(from, to) ==
    CASE from = "idle" -> to \in {"idle", "recv"}
      [] from = "recv" -> to \in {"dispatch", "wait"}
      [] from = "wait" -> to \in {"wait", "dispatch"}
      [] from = "dispatch" -> to \in {"scan", "count", "release"}
      [] from = "scan" -> to \in {"get", "put", "release"}
      [] from = "get" -> to \in {"get", "put", "delete", "release"}
      [] from \in {"put", "delete", "count"} -> to = "release"
      [] OTHER -> to = "idle"

\* C20: every request goes through acquire, dispatch, handler and release
\* in that order; it makes storage calls only between its acquire and its
\* release, holding throughout the handle it acquired; and a request that
\* failed to acquire makes no storage call.
C20_ProtocolOrder ==
    /\ [](/\ \A r \in Reqs :
               /\ (rq[r].pc \in StorageSteps \cup {"dispatch", "release"})
                    <=> rq[r].client # NoHandle
               /\ rq[r].calls # <<>> => rq[r].pc \in StorageSteps
          /\ (Responded /\ ~w.acquired) => w.calls = <<>>
          /\ (Responded /\ w.calls # <<>>) => w.acquired)
    /\ [][\A r \in Reqs :
            /\ rq'[r].pc # rq[r].pc => PcOrder(rq[r].pc, rq'[r].pc)
            /\ (rq[r].pc \in StorageSteps \cup {"dispatch"}) =>
                 rq'[r].client = rq[r].client
            /\ (rq'[r].calls # rq[r].calls /\ rq'[r].calls # <<>>) =>
                 rq[r].pc \in StorageSteps
            /\ (w'.req = r /\ w'.calls # <<>>) =>
                 rq[r].pc \in StorageSteps]_vars

\* C20's case: a request has been answered after several storage calls
\* and is about to release its handle.
C20_Witness ==
    /\ Responded /\ w.acquired /\ Len(w.calls) >= 3
    /\ rq[w.req].pc = "release"


\* A response of GET count, the one handler whose storage call is made
\* inside countBlobs.
IsCount(x) == x.method = "GET" /\ x.arg = "count"

\* C21: no handler retries or goes on after a storage call failed. In
\* POST, PUT, DELETE, GET all and GET random the failing call is the
\* request's last: the step that made it answers 500 and hands over to
\* the release, having written nothing, so no put or delete follows a
\* failed scan or get.
C21_NoRetries ==
    /\ [](/\ \A r \in Reqs : ~rq[r].failed
          /\ (Responded /\ w.failed /\ ~IsCount(w)) =>
               /\ w.status = 500 /\ w.kind = "error" /\ ~w.wrote
               /\ rq[w.req].pc = "release" /\ rq[w.req].calls = <<>>)
    /\ [][\A r \in Reqs :
            (rq'[r].calls # rq[r].calls /\ rq[r].pc # "count") =>
              \/ rq'[r].calls = <<>> /\ w'.req = r /\ rq'[r].pc = "release"
                 /\ (w'.failed => w'.status = 500 /\ store' = store)
              \/ ~rq'[r].failed /\ w' = NoResp]_vars

\* C21's case: a PUT whose Scan succeeded and whose Get failed has been
\* answered 500 after exactly those two calls.
C21_Witness ==
    /\ Responded /\ w.failed /\ w.method = "PUT" /\ w.status = 500
    /\ w.calls = <<"scan", "get">> /\ Stored(store, w.arg)


\* The step being taken writes a response for request r.
Answers(r) == w'.status # 0 /\ w'.req = r

\* The bodies a success carries, and the statuses of an error.
SuccessKinds == {"blob", "blobs", "count", "message"}
ErrorStatuses == {400, 404, 405, 409, 500}

\* C22: every request gets exactly one response. A response is one
\* outcome, either a 200 with one body or one error status with its
\* message; the step that writes it ends the handler (only the release is
\* left to run, or nothing when no handle was obtained), a handler ends
\* only by writing it, and nothing is written for the request afterwards:
\* never a success and an error, two errors, or an error after part of a
\* success.
C22_OneResponse ==
    /\ [](Responded =>
            /\ w.req \in Reqs
            /\ \/ w.status = 200 /\ w.kind \in SuccessKinds
               \/ /\ w.status \in ErrorStatuses /\ w.kind = "error"
                  /\ w.msg # "" /\ w.blobs = <<>> /\ ~w.wrote
            /\ rq[w.req].pc = (IF w.acquired THEN "release" ELSE "idle"))
    /\ [][\A r \in Reqs :
            /\ Answers(r) =>
                 /\ rq[r].pc \notin {"release", "recv", "wait"}
                 /\ rq'[r].pc = (IF rq[r].pc = "idle" THEN "idle"
                                 ELSE "release")
            /\ (rq[r].pc # "release" /\ rq'[r].pc = "release") => Answers(r)
            /\ (rq[r].pc # "idle" /\ rq'[r].pc = "idle") =>
                 rq[r].pc = "release" /\ ~Answers(r)]_vars

\* C22's case: a request that made several storage calls has just been
\* answered with a success and only its release is left.
C22_Witness ==
    /\ Responded /\ w.status = 200 /\ w.kind = "blobs" /\ Len(w.blobs) = 2
    /\ rq[w.req].pc = "release"


\* Request r is searching for its target: a PUT or DELETE in its loop of
\* fetches.
Locating(r) == rq[r].pc = "get" /\ rq[r].method \in {"PUT", "DELETE"}

\* The step being taken is a storage call of request r.
Calls(r) == rq'[r].calls # rq[r].calls

\* C23: PUT and DELETE act on the first key, in scan order, whose value
\* equals the target. The loop fetches the scanned keys in order, one
\* more per step while the value fetched differs from the target; the key
\* whose fetch matched is the one written or deleted and no key is
\* fetched after it; and a request that runs alone changes, among several
\* keys holding the target, the first one only.
C23_FirstMatch ==
    [][/\ \A r \in Reqs :
            (Locating(r) /\ Calls(r)) =>
              LET k == rq[r].keys[rq[r].idx]
              IN  /\ Occurs(rq[r].calls, "get") = rq[r].idx - 1
                  /\ rq'[r].pc = "get" =>
                       /\ store[k] # rq[r].arg
                       /\ rq'[r].idx = rq[r].idx + 1
                       /\ rq'[r].keys = rq[r].keys
                  /\ rq'[r].pc \in {"put", "delete"} =>
                       /\ store[k] = rq[r].arg
                       /\ rq'[r].key = k
                       /\ Occurs(rq'[r].calls, "get") = rq[r].idx
                  /\ store[k] = rq[r].arg =>
                       \/ rq'[r].pc \in {"put", "delete"}
                       \/ Answers(r) /\ w'.status = 500
       /\ \A r \in Reqs :
            (rq[r].pc \in {"put", "delete"} /\ rq[r].method # "POST"
               /\ Calls(r)) =>
              /\ Differ(store, store') \subseteq {rq[r].key}
              /\ rq'[r].pc = "release"
       /\ \A m \in {"PUT", "DELETE"} :
            (Answered(m) /\ w'.status = 200) =>
              LET k == FirstMatch(store, w'.arg)
                  ks == Scan(store)
              IN  /\ InWindow(store, w'.arg)
                  /\ Differ(store, store') \subseteq {k}
                  /\ store'[k] = (IF m = "PUT" THEN w'.newBlob ELSE Absent)
                  /\ \A j \in StoredKeys(store) \ {k} :
                       store'[j] = store[j]
                  /\ ks[Occurs(w'.calls, "get")] = k
                  /\ Occurs(w'.calls, "scan") = 1]_vars

\* C23's case: a DELETE that ran alone has removed one key holding its
\* target while a later key still holds the same value.
C23_Witness ==
    /\ Responded /\ w.method = "DELETE" /\ w.status = 200 /\ ~w.dirty
    /\ Stored(store, w.arg)
    /\ Occurs(w.calls, "get") = 1


\* Store st holds more keys than a Scan returns, and b only under keys
\* the Scan does not return.
Beyond(st, b) ==
    /\ Cardinality(StoredKeys(st)) > ScanLimit
    /\ Stored(st, b) /\ ~InWindow(st, b)

\* The step being taken answers a well-formed request of method m that
\* obtained a handle, ran beside no writer and saw no storage call fail.
Clean(m) ==
    /\ Answered(m) /\ w'.acquired /\ ~w'.failed
    /\ w'.arg # "" /\ (m = "PUT" => w'.newBlob # "")

\* What C24 says of PUT, DELETE, GET count and GET all on a store larger
\* than the scan window.
BeyondHidden ==
    /\ \A m \in {"PUT", "DELETE"} :
         (Clean(m) /\ Beyond(store, w'.arg)) =>
           (w'.status = 404 /\ store' = store)
    /\ (Clean("GET") /\ Cardinality(StoredKeys(store)) > ScanLimit) =>
         /\ w'.arg = "count" => w'.status = 200 /\ w'.count = ScanLimit
         /\ w'.arg = "all" => w'.status = 200 /\ Len(w'.blobs) = ScanLimit
    /\ (Answers(w'.req) /\ w'.method = "GET") =>
         w'.count <= ScanLimit /\ Len(w'.blobs) <= ScanLimit

\* What C24 says of POST: the duplicate beyond the window is not seen, and
\* the POST adds a key holding the value a second time.
BeyondDuplicated ==
    /\ w'.status = 200
    /\ \E k \in Times \ StoredKeys(store) :
         store' = [store EXCEPT ![k] = w'.arg]
    /\ Holding(store', w'.arg) = Holding(store, w'.arg) + 1

\* C24: on a store of more keys than the scan limit, a blob stored only
\* beyond the first ScanLimit keys is invisible: PUT and DELETE of its
\* value answer 404 and leave the store as it was, a POST of its value is
\* not rejected and creates a second key holding it, and GET count and GET
\* all report at most ScanLimit entries.
C24_ScanWindow ==
    [][/\ BeyondHidden
       /\ (Clean("POST") /\ Beyond(store, w'.arg)) => BeyondDuplicated]_vars

\* C24 holds of every POST whose clock reading is not yet a key of the
\* store: it fails only where the new key collides with a stored one (C16).
C24_FreshKey ==
    [][/\ BeyondHidden
       /\ (Clean("POST") /\ Beyond(store, w'.arg)
             /\ NewKey(now) \notin StoredKeys(store)) =>
            BeyondDuplicated]_vars

\* C24's cases: a PUT of a value stored only beyond the window has been
\* answered 404, and a POST of such a value has stored it a second time.
C24_Hidden ==
    /\ Responded /\ w.method = "PUT" /\ w.status = 404 /\ ~w.dirty
    /\ Beyond(store, w.arg)

C24_Duplicated ==
    /\ Responded /\ w.method = "POST" /\ w.status = 200 /\ ~w.dirty
    /\ Holding(store, w.arg) = 2 /\ ~InWindow(store, w.arg)


\* What request r asked for, read in the step being taken from its
\* response when the step writes one and from the handler's locals
\* otherwise.
Asked(r) == IF Answers(r) THEN w' ELSE rq'[r]

C25_Empty ==
    /\ Responded /\ w.method = "GET" /\ w.arg = "" /\ w.status = 404
    /\ w.calls = <<"scan">>


\* C26: every storage call made on behalf of a request, the Scan of GET
\* count included, is issued with the request's own context and none with
\* the process-wide background context.
C26_ContextPropagation ==
    /\ \A r \in Reqs : rq[r].ctxs \subseteq {RequestContext}
    /\ Responded => w.ctxs \subseteq {RequestContext}

\* Every handler but GET count does pass the request's context.
C26_AllButCount ==
    /\ \A r \in Reqs : rq[r].ctxs \subseteq {RequestContext}
    /\ (Responded /\ ~IsCount(w)) => w.ctxs \subseteq {RequestContext}
    /\ (Responded /\ IsCount(w) /\ w.acquired) => w.ctxs = {ctx}


\* C27: the pool hands handles out in the order they were put in. A
\* receive takes the oldest handle of the buffer and leaves the others in
\* their order; a release puts its handle behind those already there, so
\* that it is handed out only after them.
C27_FifoHandOut ==
    [][/\ \A r \in Reqs :
            (rq[r].pc = "recv" /\ rq'[r].pc = "dispatch") =>
              /\ rq'[r].client = Head(clientPool)
              /\ clientPool' = Tail(clientPool)
       /\ (mon.pc = "sleep" /\ mon'.pc = "count") =>
            /\ mon'.client = Head(clientPool)
            /\ clientPool' = Tail(clientPool)
       /\ \A r \in Reqs :
            (rq[r].pc = "release" /\ rq'[r].pc = "idle"
               /\ clientPool # <<>>) =>
              /\ clientPool' = Append(clientPool, rq[r].client)
              /\ \A i \in 1..Len(clientPool) : clientPool'[i] = clientPool[i]
              /\ \A x \in Reqs : rq'[x].client # rq[x].client => x = r
              /\ mon'.client = mon.client
       /\ clientPool' # clientPool =>
            \/ clientPool # <<>> /\ clientPool' = Tail(clientPool)
            \/ \E r \in Reqs :
                 /\ rq[r].pc = "release"
                 /\ clientPool' = Append(clientPool, rq[r].client)]_vars

\* C27's case: a handle was released into a pool that held another, and
\* the request that came next was handed the other one.
C27_Witness ==
    /\ capPool = 2 /\ clientPool = <<1>>
    /\ \E r \in Reqs : rq[r].client = 2 /\ rq[r].pc = "dispatch"
    /\ nreq = 1 /\ taken = 0


\* C28: every request completes. Storage calls return, and under every
\* fair interleaving a request that has arrived is eventually over, its
\* response written; none waits forever in getClientFromPool.
C28_RequestTermination ==
    \A r \in Reqs : (rq[r].pc # "idle") ~> (rq[r].pc = "idle")

\* A request is blocked in getClientFromPool's receive while no handle is
\* in the pool and none is held by anyone who would send it back.
C28_Stuck ==
    \E r \in Reqs :
      /\ rq[r].pc = "wait" /\ clientPool = <<>>
      /\ HeldByRequests = {} /\ mon.pc # "count"


\* The handles checked out: those held by requests, and the one a monitor
\* tick is counting with.
CheckedOut ==
    Cardinality(HeldByRequests) + (IF mon.pc = "count" THEN 1 ELSE 0)

\* C29: the pool never holds more handles than its capacity less the
\* handles checked out, so the buffer has room for the handle of every
\* request that is about to release: the deferred send can be taken at
\* once, whatever the others do.
C29_ReleaseNeverBlocks ==
    /\ Len(clientPool) <= capPool - CheckedOut
    /\ \A r \in Reqs :
         rq[r].pc = "release" =>
           /\ rq[r].client \in 1..capPool
           /\ Len(clientPool) < capPool
           /\ ENABLED Release(r)

\* C29's case: a request is about to release while every other handle of
\* a pool of two is in the buffer.
C29_Witness ==
    /\ capPool = MaxPool /\ Len(clientPool) = capPool - 1
    /\ \E r \in Reqs : rq[r].pc = "release"


C30_MissingParam ==
    /\ Responded /\ w.method = "PUT" /\ w.arg = "" /\ w.newBlob = ""
    /\ ~w.acquired /\ w.status = 500


\* C31: PUT makes no duplicate check on newBlob. When a scanned key holds
\* oldBlob and another key already holds a different newBlob, a
\* PUT(oldBlob, newBlob) that runs alone (with a handle, its storage calls
\* succeeding) is answered 200 and leaves one more key holding newBlob, at
\* least two in all: PUT does not preserve the uniqueness of values.
C31_PutDuplicates ==
    [][(Clean("PUT") /\ w'.arg # w'.newBlob /\ InWindow(store, w'.arg)
          /\ Stored(store, w'.newBlob)) =>
          /\ w'.status = 200
          /\ Occurs(w'.calls, "put") = 1
          /\ Holding(store', w'.newBlob) = Holding(store, w'.newBlob) + 1
          /\ Holding(store', w'.newBlob) >= 2
          /\ StoredKeys(store') = StoredKeys(store)]_vars

\* C31's case: a PUT that ran alone has been answered 200 and two keys
\* hold its newBlob, the one it wrote and one that held it before.
C31_Witness ==
    /\ Responded /\ w.method = "PUT" /\ w.status = 200 /\ ~w.dirty
    /\ w.arg # w.newBlob /\ Holding(store, w.newBlob) = 2
    /\ ~Stored(store, w.arg)


\* The mutating storage calls in a request's trace of calls.
Mutations(calls) == Occurs(calls, "put") + Occurs(calls, "delete")

\* C32: the write footprint. Only a Put or Delete of a POST, PUT or DELETE
\* request changes the store, and it changes one key; that call is the
\* request's last storage call (the step that makes it writes the response)
\* and its only mutating one. GET requests and monitor ticks make no
\* mutating call and leave the store as it is.
C32_WriteFootprint ==
    /\ [](/\ \A r \in Reqs : Mutations(rq[r].calls) = 0
          /\ Responded =>
               /\ Mutations(w.calls) <= 1
               /\ w.method \notin {"POST", "PUT", "DELETE"} =>
                    Mutations(w.calls) = 0 /\ ~w.wrote
               /\ Mutations(w.calls) = 1 =>
                    w.calls[Len(w.calls)] \in {"put", "delete"}
               /\ w.wrote => Mutations(w.calls) = 1)
    /\ [][/\ store' # store =>
               /\ Cardinality(Differ(store, store')) = 1
               /\ \E r \in Reqs :
                    /\ rq[r].pc \in {"put", "delete"} /\ Calls(r)
                    /\ rq[r].method \in {"POST", "PUT", "DELETE"}
                    /\ Answers(r) /\ w'.wrote /\ rq'[r].pc = "release"
          /\ \A r \in Reqs :
               (rq[r].method = "GET" /\ Calls(r)) => store' = store
          /\ (mon' # mon \/ monLog' # NoLog) => store' = store]_vars

\* C32's case: a DELETE has been answered after a Scan, two Gets and, last
\* of its calls, the Delete that removed one key.
C32_Witness ==
    /\ Responded /\ w.method = "DELETE" /\ w.status = 200
    /\ w.calls = <<"scan", "get", "get", "delete">>


\* C33: a request answered with an error leaves the store as it found it
\* (a failed Put or Delete having no effect): the step that writes a
\* non-200 response changes nothing, a response other than 200 reports no
\* write and at most a failed mutating call, and every step that does
\* change the store is the step that answers its request 200, so nothing
\* a request did before an error has touched the store.
C33_UnchangedOnError ==
    /\ [](Responded /\ w.status # 200 =>
            /\ w.status \in ErrorStatuses /\ ~w.wrote
            /\ Mutations(w.calls) = 1 => w.failed /\ w.status = 500)
    /\ [][/\ \A r \in Reqs :
               (Answers(r) /\ w'.status # 200) => store' = store
          /\ store' # store =>
               /\ w'.status = 200 /\ w'.req \in Reqs /\ ~w'.failed
               /\ \A x \in Reqs \ {w'.req} : rq'[x].pc = rq[x].pc]_vars

\* C33's case: a PUT found its blob, its Put failed, and it has been
\* answered 500 with the blob still stored as it was.
C33_Witness ==
    /\ Responded /\ w.method = "PUT" /\ w.status = 500 /\ w.failed
    /\ ~w.dirty /\ w.arg # w.newBlob
    /\ w.calls[Len(w.calls)] = "put"
    /\ Stored(store, w.arg) /\ ~Stored(store, w.newBlob)


\* A PUT that has located the key holding oldBlob and is about to call Put.
Located(r) == rq[r].pc = "put" /\ rq[r].method = "PUT"

\* The Put of request r's PUT succeeds: 200, and the key it located holds
\* newBlob, every other key as it was.
PutRecreates(r) ==
    /\ PutStep(r)
    /\ w'.req = r /\ w'.status = 200
    /\ store' = [store EXCEPT ![rq[r].key] = rq[r].newBlob]

\* C34: nothing is checked again once a PUT has located its key: from
\* every state in which it has, also when a DELETE that located the same
\* key has removed it since and been answered 200, the PUT can go on to be
\* answered 200 with newBlob stored under that key, and its Put step does
\* nothing else than that or fail with 500; so the key of a successful
\* delete exists again.
C34_Resurrection ==
    /\ [](\A r \in Reqs : Located(r) => ENABLED PutRecreates(r))
    /\ [][\A r \in Reqs :
            (Located(r) /\ Answers(r)) =>
              \/ /\ w'.status = 200
                 /\ store' = [store EXCEPT ![rq[r].key] = rq[r].newBlob]
                 /\ rq[r].key \in StoredKeys(store')
              \/ /\ w'.status = 500 /\ w'.msg = "Failed to update blob"
                 /\ store' = store]_vars

\* C34's case: a PUT and a DELETE of one blob both located its key; the
\* DELETE has just removed it and been answered 200, and the PUT is about
\* to put newBlob under the key that is gone.
C34_Witness ==
    \E r \in Reqs :
      /\ Responded /\ w.method = "DELETE" /\ w.status = 200 /\ w.req # r
      /\ w.calls = <<"scan", "get", "delete">>
      /\ Located(r) /\ rq[r].arg = w.arg /\ rq[r].calls = <<"scan", "get">>
      /\ rq[r].key \notin StoredKeys(store) /\ StoredKeys(store) = {}


\* The key a PUT located has been given another value since.
Overtaken(r) ==
    /\ Located(r) /\ rq[r].key \in StoredKeys(store)
    /\ store[rq[r].key] # rq[r].arg

\* C35: a PUT writes over whatever its key holds by the time of its Put.
\* When another PUT of the same oldBlob has updated the key since this one
\* located it, this PUT can still be answered 200, and a PUT answered 200
\* leaves under its key its own newBlob alone: of two acknowledged updates
\* of one key, the value written last is the only one kept.
C35_LostUpdate ==
    /\ [](\A r \in Reqs : Overtaken(r) => ENABLED PutRecreates(r))
    /\ [][\A r \in Reqs :
            (Overtaken(r) /\ Answers(r) /\ w'.status = 200) =>
              /\ store'[rq[r].key] = rq[r].newBlob
              /\ Differ(store, store') \subseteq {rq[r].key}
              /\ rq[r].newBlob # store[rq[r].key] =>
                   Holding(store', store[rq[r].key]) =
                     Holding(store, store[rq[r].key]) - 1]_vars

\* C35's case: two PUTs with one oldBlob and different newBlobs both
\* located the same key; one has just been answered 200 and the key holds
\* its newBlob, which the other is about to overwrite with its own.
C35_Witness ==
    \E r \in Reqs :
      /\ Responded /\ w.method = "PUT" /\ w.status = 200 /\ w.req # r
      /\ w.calls = <<"scan", "get", "put">>
      /\ Overtaken(r) /\ rq[r].arg = w.arg /\ rq[r].newBlob # w.newBlob
      /\ rq[r].calls = <<"scan", "get">>
      /\ store[rq[r].key] = w.newBlob

====
